---- MODULE Spec2Model ----
(***************************************************************************)
(* Data-quality scoring (starter_DQ.py, cdq.py) and the two upload         *)
(* handlers that summarise a report (app.py, app1.py).  The __main__        *)
(* blocks of starter_DQ.py and cdq.py compute the same summaries.          *)
(*                                                                         *)
(* Numbers are exact rationals.  A Python value is a record                *)
(*   [tag, n, d]   tag = "num": the rational n/d (d > 0, lowest terms)     *)
(*                 tag = "nan": float nan                                  *)
(*                 tag = "N/A": the string sentinel "N/A"                  *)
(*                 tag = "ZeroDivisionError" / "KeyError": raised          *)
(* round(x, 2) works on the binary float nearest to x; at an exact decimal *)
(* tie (x.xx5) the float's representation error decides the direction, so  *)
(* both neighbours are outcomes (Round2 is a set).                         *)
(***************************************************************************)
EXTENDS Integers, Sequences, FiniteSets, TLC

VARIABLES pc, op, df, report, summary, arg, ret

vars == <<pc, op, df, report, summary, arg, ret>>

\* ------------------------------------------------------------------ bounds
MaxCols == 2
MaxRows == 2
MaxLen == 3
MaxDistinct == 21

\* --------------------------------------------------------------- numbers
Abs(x) == IF x < 0 THEN 0 - x ELSE x

RECURSIVE GCD(_, _)
GCD(a, b) == IF b = 0 THEN a ELSE GCD(b, a % b)

Num(n, d) ==
    LET g == GCD(Abs(n), Abs(d))
        s == IF d < 0 THEN 0 - 1 ELSE 1
    IN  [tag |-> "num", n |-> (s * n) \div g, d |-> (s * d) \div g]

NaN == [tag |-> "nan", n |-> 0, d |-> 1]
NA == [tag |-> "N/A", n |-> 0, d |-> 1]
ZeroDivisionError == [tag |-> "ZeroDivisionError", n |-> 0, d |-> 1]
KeyError == [tag |-> "KeyError", n |-> 0, d |-> 1]

Int2(i) == Num(i, 1)
IsNum(x) == x.tag = "num"

\* float arithmetic: nan is absorbing
Plus(a, b) == IF IsNum(a) /\ IsNum(b) THEN Num(a.n * b.d + b.n * a.d, a.d * b.d) ELSE NaN
Minus(a, b) == IF IsNum(a) /\ IsNum(b) THEN Num(a.n * b.d - b.n * a.d, a.d * b.d) ELSE NaN
Times(a, b) == IF IsNum(a) /\ IsNum(b) THEN Num(a.n * b.n, a.d * b.d) ELSE NaN

\* Python's / on built-in numbers: a zero divisor raises
PyDiv(a, b) ==
    IF ~(IsNum(a) /\ IsNum(b)) THEN NaN
    ELSE IF b.n = 0 THEN ZeroDivisionError
    ELSE Num(a.n * b.d, a.d * b.n)

\* / with a numpy scalar on the left: 0/0 is nan (a RuntimeWarning, no exception)
NpDiv(a, b) ==
    IF ~(IsNum(a) /\ IsNum(b)) THEN NaN
    ELSE IF b.n = 0 THEN NaN
    ELSE Num(a.n * b.d, a.d * b.n)

\* comparisons: every comparison with nan is false
Gt(a, b) == IsNum(a) /\ IsNum(b) /\ a.n * b.d > b.n * a.d
Ge(a, b) == IsNum(a) /\ IsNum(b) /\ a.n * b.d >= b.n * a.d
Lt(a, b) == IsNum(a) /\ IsNum(b) /\ a.n * b.d < b.n * a.d
Le(a, b) == IsNum(a) /\ IsNum(b) /\ a.n * b.d <= b.n * a.d
Eq(a, b) == IsNum(a) /\ IsNum(b) /\ a.n * b.d = b.n * a.d

\* floor of n/d for d > 0
Floor(n, d) == IF n >= 0 THEN n \div d ELSE 0 - ((0 - n + d - 1) \div d)

\* round(x, 2): the candidates, in hundredths
Round2(x) ==
    IF ~IsNum(x) THEN {x}
    ELSE LET f == Floor(100 * x.n, x.d)
             r == 100 * x.n - f * x.d
         IN  IF 2 * r < x.d THEN {Num(f, 100)}
             ELSE IF 2 * r > x.d THEN {Num(f + 1, 100)}
             ELSE {Num(f, 100), Num(f + 1, 100)}

RECURSIVE SumSeq(_)
SumSeq(s) == IF s = <<>> THEN Int2(0) ELSE Plus(s[1], SumSeq(Tail(s)))

\* ------------------------------------------------------------ table cells
\* a cell is missing, a number, a text (sequence of code points) or a
\* timestamp (n = whole days between it and now)
Missing == [kind |-> "na", n |-> 0, s |-> <<>>]
NumCell(v) == [kind |-> "num", n |-> v, s |-> <<>>]
StrCell(t) == [kind |-> "str", n |-> 0, s |-> t]
TsCell(age) == [kind |-> "ts", n |-> age, s |-> <<>>]

Dtypes == {"num", "obj", "ts"}

\* the cells a column of each dtype is drawn from, in a fixed order
CellOrder(dtype) ==
    CASE dtype = "num" -> <<Missing, NumCell(0 - 1), NumCell(5)>>
      [] dtype = "obj" -> <<Missing, StrCell(<<97>>), StrCell(<<65>>), StrCell(<<>>)>>
      [] dtype = "ts" -> <<Missing, TsCell(10), TsCell(400)>>

CellsOf(dtype) == {CellOrder(dtype)[i] : i \in DOMAIN CellOrder(dtype)}

SeqsOfLen(S, len) == [1..len -> S]

\* every column of the given length
ColumnsOfLen(len) ==
    UNION {{[dtype |-> t, cells |-> c] : c \in SeqsOfLen(CellsOf(t), len)} : t \in Dtypes}

\* the columns whose cells follow CellOrder: one column for each multiset of
\* cells (no scorer looks at the position of a cell)
OrderedColumnsOfLen(len) ==
    UNION {{[dtype |-> t, cells |-> [i \in 1..len |-> CellOrder(t)[ix[i]]]] :
              ix \in {f \in [1..len -> 1..Len(CellOrder(t))] :
                        \A i \in 1..len, j \in 1..len : i <= j => f[i] <= f[j]}} :
             t \in Dtypes}

\* ------------------------------------------------------- pandas primitives
len(column) == Len(column.cells)
notnull(x) == x.kind # "na"
dropna(column) == SelectSeq(column.cells, notnull)
Range(s) == {s[i] : i \in DOMAIN s}
is_numeric_dtype(column) == column.dtype = "num"
is_datetime64_any_dtype(column) == column.dtype = "ts"

RECURSIVE Digits(_)
Digits(v) == IF v < 10 THEN <<48 + v>> ELSE Digits(v \div 10) \o <<48 + (v % 10)>>

\* str(x): a text is itself; a number is its sign and decimal digits; a
\* timestamp prints as digits and punctuation
str(x) ==
    CASE x.kind = "str" -> x.s
      [] x.kind = "num" -> IF x.n < 0 THEN <<45>> \o Digits(0 - x.n) ELSE Digits(x.n)
      [] x.kind = "ts" -> <<58>> \o Digits(x.n)
      [] OTHER -> <<110, 97, 110>>

lower(t) == [i \in DOMAIN t |-> IF t[i] >= 65 /\ t[i] <= 90 THEN t[i] + 32 ELSE t[i]]

\* pattern .+ : at least one character, none of them a newline for fullmatch;
\* match needs only a first character that is not a newline
re_match(t) == Len(t) > 0 /\ t[1] # 10
re_fullmatch(t) == Len(t) > 0 /\ \A i \in DOMAIN t : t[i] # 10

\* ------------------------------------------------------------ starter_DQ.py
starter_DQ_calculate_completeness(column) ==
    LET total == len(column)
        non_null == Len(SelectSeq(column.cells, notnull))
        ratio == NpDiv(Int2(non_null), Int2(total))
    IN  IF Gt(ratio, Num(95, 100)) THEN Num(1, 1)
        ELSE IF Gt(ratio, Num(85, 100)) THEN Num(75, 100)
        ELSE IF Gt(ratio, Num(75, 100)) THEN Num(5, 10)
        ELSE IF Gt(ratio, Num(5, 10)) THEN Num(4, 10)
        ELSE Num(2, 10)

starter_DQ_calculate_format_validity(column) ==
    LET total == len(column)
        Valid(x) == re_match(str(x))
        valid == Len(SelectSeq(dropna(column), Valid))
        ratio == IF total > 0 THEN PyDiv(Int2(valid), Int2(total)) ELSE Int2(0)
    IN  IF Gt(ratio, Num(95, 100)) THEN Num(1, 1)
        ELSE IF Gt(ratio, Num(85, 100)) THEN Num(75, 100)
        ELSE IF Gt(ratio, Num(75, 100)) THEN Num(5, 10)
        ELSE IF Gt(ratio, Num(5, 10)) THEN Num(4, 10)
        ELSE Num(2, 10)

consistency_ratio(column) ==
    LET unique_values == Range(dropna(column))
        unique_lower == {lower(str(x)) : x \in unique_values}
    IN  IF Cardinality(unique_values) > 0
        THEN PyDiv(Int2(Cardinality(unique_lower)), Int2(Cardinality(unique_values)))
        ELSE Num(1, 1)

calculate_cross_system_consistency(column) ==
    LET ratio == consistency_ratio(column)
    IN  IF Eq(ratio, Num(1, 1)) THEN Num(1, 1)
        ELSE IF Gt(ratio, Num(85, 100)) THEN Num(75, 100)
        ELSE IF Gt(ratio, Num(75, 100)) THEN Num(5, 10)
        ELSE IF Gt(ratio, Num(5, 10)) THEN Num(4, 10)
        ELSE Num(2, 10)

calculate_business_rule_compliance(column, min_val, max_val) ==
    IF is_numeric_dtype(column)
    THEN LET InRange(x) == min_val <= x.n /\ x.n <= max_val
             valid == Len(SelectSeq(dropna(column), InRange))
             ratio == IF len(column) > 0 THEN PyDiv(Int2(valid), Int2(len(column)))
                      ELSE Int2(0)
         IN  IF Gt(ratio, Num(95, 100)) THEN Num(1, 1)
             ELSE IF Gt(ratio, Num(85, 100)) THEN Num(75, 100)
             ELSE IF Gt(ratio, Num(75, 100)) THEN Num(5, 10)
             ELSE IF Gt(ratio, Num(5, 10)) THEN Num(4, 10)
             ELSE Num(2, 10)
    ELSE NA

detect_duplicates(column) ==
    LET total == len(column)
        unique == Cardinality(Range(column.cells))
        duplicate_ratio == PyDiv(Int2(total - unique), Int2(total))
    IN  IF duplicate_ratio.tag = "ZeroDivisionError" THEN ZeroDivisionError
        ELSE IF Lt(duplicate_ratio, Num(1, 100)) THEN Num(1, 1)
        ELSE IF Lt(duplicate_ratio, Num(5, 100)) THEN Num(75, 100)
        ELSE IF Lt(duplicate_ratio, Num(10, 100)) THEN Num(5, 10)
        ELSE IF Lt(duplicate_ratio, Num(20, 100)) THEN Num(4, 10)
        ELSE Num(2, 10)

Dims == {"Completeness", "Format Validity", "Cross-System Consistency",
         "Business Rule Compliance"}

weights ==
    [dim \in Dims |->
        CASE dim = "Completeness" -> Num(2, 1)
          [] dim = "Format Validity" -> Num(3, 2)
          [] dim = "Cross-System Consistency" -> Num(3, 2)
          [] dim = "Business Rule Compliance" -> Num(2, 1)]

\* sum of f[k] over the keys K
RECURSIVE SumOver(_, _)
SumOver(f, K) ==
    IF K = {} THEN Int2(0)
    ELSE LET k == CHOOSE x \in K : TRUE IN Plus(f[k], SumOver(f, K \ {k}))

\* calculate_dqs dividing by the number of weighted dimensions (len(weights))
\* in place of the sum of their weights
starter_DQ_calculate_dqs_by_count(scores) ==
    LET weight == [dim \in DOMAIN scores |->
                      IF dim \in DOMAIN weights THEN weights[dim] ELSE Int2(0)]
        applicable == {dim \in DOMAIN scores : scores[dim].tag # "N/A"}
        weighted_sum == SumOver([dim \in applicable |-> Times(scores[dim], weight[dim])],
                                applicable)
        total_weight == Minus(Int2(Cardinality(DOMAIN weights)),
                              SumOver(weight, DOMAIN scores \ applicable))
    IN  IF Eq(total_weight, Int2(0)) THEN {NA}
        ELSE Round2(PyDiv(weighted_sum, total_weight))

\* scores: a mapping from dimension names to values; the result of the
\* final round is one of Round2's candidates
starter_DQ_calculate_dqs(scores) ==
    LET weight == [dim \in DOMAIN scores |->
                      IF dim \in DOMAIN weights THEN weights[dim] ELSE Int2(0)]
        applicable == {dim \in DOMAIN scores : scores[dim].tag # "N/A"}
        weighted_sum == SumOver([dim \in applicable |-> Times(scores[dim], weight[dim])],
                                applicable)
        total_weight == Minus(SumOver(weights, DOMAIN weights),
                              SumOver(weight, DOMAIN scores \ applicable))
    IN  IF Eq(total_weight, Int2(0)) THEN {NA}
        ELSE Round2(PyDiv(weighted_sum, total_weight))

starter_DQ_get_quality_label(dqs) ==
    IF dqs.tag = "N/A" THEN "N/A"
    ELSE IF Ge(dqs, Num(8, 10)) THEN "High Quality"
    ELSE IF Ge(dqs, Num(6, 10)) THEN "Good Quality"
    ELSE IF Ge(dqs, Num(4, 10)) THEN "Acceptable"
    ELSE IF Ge(dqs, Num(2, 10)) THEN "Poor Quality"
    ELSE "Very Poor"

starter_DQ_get_suggested_action(dqs) ==
    IF dqs.tag = "N/A" THEN "N/A"
    ELSE IF Ge(dqs, Num(8, 10)) THEN "Suitable for critical decision-making"
    ELSE IF Ge(dqs, Num(6, 10)) THEN "Reliable for most business purposes"
    ELSE IF Ge(dqs, Num(4, 10)) THEN "Usable with caution, consider improvements"
    ELSE IF Ge(dqs, Num(2, 10)) THEN "Use only if necessary, prioritize improvement"
    ELSE "Not recommended for use, requires remediation"

\* the report rows one column can produce (one per outcome of the round)
starter_DQ_rows(col, column) ==
    LET is_numeric == is_numeric_dtype(column)
        completeness == starter_DQ_calculate_completeness(column)
        format_validity == starter_DQ_calculate_format_validity(column)
        consistency == calculate_cross_system_consistency(column)
        business_rule == IF is_numeric
                         THEN calculate_business_rule_compliance(column, 0, 999999)
                         ELSE NA
        scores == [dim \in Dims |->
                      CASE dim = "Completeness" -> completeness
                        [] dim = "Format Validity" -> format_validity
                        [] dim = "Cross-System Consistency" -> consistency
                        [] dim = "Business Rule Compliance" -> business_rule]
    IN  {[Column |-> col, scores |-> scores, DQS |-> dqs,
          Label |-> starter_DQ_get_quality_label(dqs),
          Action |-> starter_DQ_get_suggested_action(dqs)] :
            dqs \in starter_DQ_calculate_dqs(scores)}

\* starter_DQ_rows tabulated over the columns a table can hold
starter_DQ_rows_of ==
    [column \in UNION {OrderedColumnsOfLen(rows) : rows \in 0..MaxRows} |->
        starter_DQ_rows(0, column)]

\* all ways to pick one element from each set of a sequence of sets
RECURSIVE Choices(_)
Choices(sets) ==
    IF sets = <<>> THEN {<<>>}
    ELSE LET n == Len(sets)
         IN  {Append(r, x) : r \in Choices(SubSeq(sets, 1, n - 1)), x \in sets[n]}

\* a table is a sequence of columns of one length; a column's name is its
\* position.  The result: the reports the loop can build.
assess_data_quality(table) ==
    Choices([col \in 1..Len(table) |->
                {[row EXCEPT !.Column = col] : row \in starter_DQ_rows_of[table[col]]}])

\* ------------------------------------------------------------------ cdq.py
cdq_calculate_completeness(column) ==
    LET total == len(column)
        non_null == Len(SelectSeq(column.cells, notnull))
    IN  IF total # 0 THEN NpDiv(Int2(non_null), Int2(total)) ELSE Int2(0)

calculate_accuracy(column) ==
    IF is_numeric_dtype(column)
    THEN LET Negative(x) == notnull(x) /\ x.n < 0
             errors == Len(SelectSeq(column.cells, Negative))
         IN  IF len(column) # 0
             THEN Minus(Int2(1), NpDiv(Int2(errors), Int2(len(column))))
             ELSE Int2(0)
    ELSE Num(1, 1)

cdq_calculate_format_validity(column) ==
    LET Valid(x) == re_fullmatch(str(x))
        valid == Len(SelectSeq(dropna(column), Valid))
    IN  IF len(column) # 0 THEN NpDiv(Int2(valid), Int2(len(column))) ELSE Int2(0)

calculate_timeliness(column) ==
    IF is_datetime64_any_dtype(column)
    THEN LET Recent(x) == x.n <= 365
             within_one_year == Len(SelectSeq(dropna(column), Recent))
         IN  IF len(column) # 0
             THEN NpDiv(Int2(within_one_year), Int2(len(column)))
             ELSE Int2(0)
    ELSE Num(1, 1)

calculate_relevance(column) ==
    LET unique == Cardinality(Range(dropna(column)))
        total == Len(dropna(column))
    IN  IF total = 0 THEN Int2(0)
        ELSE LET ratio == NpDiv(Int2(unique), Int2(total))
             IN  IF Lt(Num(1, 10), ratio) /\ Lt(ratio, Num(9, 10))
                 THEN Num(1, 1) ELSE Num(5, 10)

calculate_verifiability(column) ==
    IF \A i \in DOMAIN column.cells : notnull(column.cells[i])
    THEN Num(1, 1) ELSE Num(75, 100)

calculate_transparency(metadata_available) ==
    IF metadata_available THEN Num(1, 1) ELSE Num(5, 10)

calculate_comparability(column) ==
    IF column.dtype \in {"num", "ts"} THEN Num(1, 1) ELSE Num(7, 10)

CarbonDims == {"Completeness", "Accuracy", "Format Validity", "Timeliness",
               "Relevance", "Verifiability", "Transparency", "Comparability"}

\* called without weights: every dimension weighs 1
cdq_calculate_dqs(scores) ==
    LET weight == [dim \in DOMAIN scores |-> Int2(1)]
        weighted_sum == SumOver([dim \in DOMAIN scores |-> Times(scores[dim], weight[dim])],
                                DOMAIN scores)
        total_weight == SumOver(weight, DOMAIN scores)
    IN  Round2(PyDiv(weighted_sum, total_weight))

\* get_quality_label with strict comparisons (> in place of >=)
cdq_get_quality_label_strict(score) ==
    IF Gt(score, Num(8, 10)) THEN "High"
    ELSE IF Gt(score, Num(6, 10)) THEN "Good"
    ELSE IF Gt(score, Num(4, 10)) THEN "Acceptable"
    ELSE IF Gt(score, Num(2, 10)) THEN "Poor"
    ELSE "Very Poor"

cdq_get_quality_label(score) ==
    IF Ge(score, Num(8, 10)) THEN "High"
    ELSE IF Ge(score, Num(6, 10)) THEN "Good"
    ELSE IF Ge(score, Num(4, 10)) THEN "Acceptable"
    ELSE IF Ge(score, Num(2, 10)) THEN "Poor"
    ELSE "Very Poor"

cdq_get_suggested_action(score) ==
    IF Ge(score, Num(8, 10)) THEN "Use confidently for decision-making."
    ELSE IF Ge(score, Num(6, 10)) THEN "Use with minor caution."
    ELSE IF Ge(score, Num(4, 10)) THEN "Review and improve where possible."
    ELSE IF Ge(score, Num(2, 10)) THEN "Flag for remediation."
    ELSE "Do not use."

cdq_rows(col, column, metadata_flag) ==
    LET scores == [dim \in CarbonDims |->
                      CASE dim = "Completeness" -> cdq_calculate_completeness(column)
                        [] dim = "Accuracy" -> calculate_accuracy(column)
                        [] dim = "Format Validity" -> cdq_calculate_format_validity(column)
                        [] dim = "Timeliness" -> calculate_timeliness(column)
                        [] dim = "Relevance" -> calculate_relevance(column)
                        [] dim = "Verifiability" -> calculate_verifiability(column)
                        [] dim = "Transparency" -> calculate_transparency(metadata_flag)
                        [] dim = "Comparability" -> calculate_comparability(column)]
    IN  {[Column |-> col, scores |-> scores, DQS |-> dqs,
          Label |-> cdq_get_quality_label(dqs),
          Action |-> cdq_get_suggested_action(dqs)] :
            dqs \in cdq_calculate_dqs(scores)}

\* cdq_rows tabulated over the columns a table can hold
cdq_rows_of ==
    [column \in UNION {OrderedColumnsOfLen(rows) : rows \in 0..MaxRows},
     metadata_flag \in BOOLEAN |-> cdq_rows(0, column, metadata_flag)]

\* metadata_flags: the set of column names flagged true
assess_carbon_data_quality(table, metadata_flags) ==
    Choices([col \in 1..Len(table) |->
                {[row EXCEPT !.Column = col] :
                   row \in cdq_rows_of[table[col], col \in metadata_flags]}])

\* ------------------------------------------------------------ report access
\* Series.mean(): nan for an empty series
mean(values) == NpDiv(SumSeq(values), Int2(Len(values)))

\* report["DQS"], report["Verifiability"]: pd.DataFrame([]) has no columns,
\* so the handlers guard on Len(report) = 0 and raise KeyError
DQS_column(rep) == [i \in 1..Len(rep) |-> rep[i].DQS]
score_column(rep, dim) == [i \in 1..Len(rep) |-> rep[i].scores[dim]]

\* ------------------------------------------------------------------ app.py
\* the summary of app.py without the round(..., 2) of the mean
app_summary_unrounded(rep) ==
    IF Len(rep) = 0
    THEN {[status |-> "KeyError", overall_dqs |-> KeyError,
           overall_label |-> "KeyError", overall_action |-> "KeyError"]}
    ELSE LET NotNA(x) == x.tag # "N/A"
             valid_dqs == SelectSeq(DQS_column(rep), NotNA)
         IN  IF Len(valid_dqs) # 0
             THEN {[status |-> "ok", overall_dqs |-> overall_dqs,
                    overall_label |-> starter_DQ_get_quality_label(overall_dqs),
                    overall_action |-> starter_DQ_get_suggested_action(overall_dqs)] :
                      overall_dqs \in {mean(valid_dqs)}}
             ELSE {[status |-> "ok", overall_dqs |-> NA,
                    overall_label |-> "N/A", overall_action |-> "N/A"]}

app_summary(rep) ==
    IF Len(rep) = 0
    THEN {[status |-> "KeyError", overall_dqs |-> KeyError,
           overall_label |-> "KeyError", overall_action |-> "KeyError"]}
    ELSE LET NotNA(x) == x.tag # "N/A"
             valid_dqs == SelectSeq(DQS_column(rep), NotNA)
         IN  IF Len(valid_dqs) # 0
             THEN {[status |-> "ok", overall_dqs |-> overall_dqs,
                    overall_label |-> starter_DQ_get_quality_label(overall_dqs),
                    overall_action |-> starter_DQ_get_suggested_action(overall_dqs)] :
                      overall_dqs \in Round2(mean(valid_dqs))}
             ELSE {[status |-> "ok", overall_dqs |-> NA,
                    overall_label |-> "N/A", overall_action |-> "N/A"]}

app_assess(table) ==
    UNION {{[report |-> rep, summary |-> s] : s \in app_summary(rep)} :
             rep \in assess_data_quality(table)}

\* ----------------------------------------------------------------- app1.py
\* Series.mean() skips missing values
column_mean(column) ==
    LET present == dropna(column)
    IN  mean([i \in 1..Len(present) |-> Int2(present[i].n)])

\* df.select_dtypes(include='number').mean().mean()
estimated_emissions(table) ==
    LET numeric == SelectSeq(table, is_numeric_dtype)
        means == [i \in 1..Len(numeric) |-> column_mean(numeric[i])]
    IN  mean(SelectSeq(means, IsNum))

decision_recommendation(avg_dqs) ==
    IF Ge(avg_dqs, Num(8, 10)) THEN "Use confidently for decision-making."
    ELSE IF Ge(avg_dqs, Num(6, 10))
    THEN "Suitable for most decision-making with uncertainty noted."
    ELSE IF Ge(avg_dqs, Num(4, 10)) THEN "Use with caution; verify critical fields."
    ELSE "Improve data before use."

app1_summary(table, rep) ==
    IF Len(rep) = 0
    THEN {[status |-> "KeyError", overall_label |-> "KeyError", overall_dqs |-> KeyError,
           pcaf_score |-> 0, uncertainty |-> KeyError, estimate |-> KeyError,
           lower_bound |-> KeyError, upper_bound |-> KeyError,
           decision |-> "KeyError", weak_areas |-> <<>>]}
    ELSE LET avg_dqs == mean(DQS_column(rep))
             overall_label == cdq_get_quality_label(avg_dqs)
             verifiability_score == mean(score_column(rep, "Verifiability"))
             pcaf_score == IF Ge(verifiability_score, Num(95, 100)) THEN 1 ELSE 2
             emissions == estimated_emissions(table)
             Weak(row) == Lt(row.scores["Verifiability"], Num(95, 100))
             weak == SelectSeq(rep, Weak)
             weak_areas == [i \in 1..Len(weak) |-> weak[i].Column]
         IN  UNION {{[status |-> "ok", overall_label |-> overall_label,
                      overall_dqs |-> score, pcaf_score |-> pcaf_score,
                      uncertainty |-> uncertainty, estimate |-> estimate,
                      lower_bound |-> lower_bound, upper_bound |-> upper_bound,
                      decision |-> decision_recommendation(avg_dqs),
                      weak_areas |-> weak_areas] :
                        score \in Round2(avg_dqs),
                        estimate \in Round2(emissions),
                        lower_bound \in Round2(Times(emissions,
                            Minus(Int2(1), PyDiv(uncertainty, Int2(100))))),
                        upper_bound \in Round2(Times(emissions,
                            Plus(Int2(1), PyDiv(uncertainty, Int2(100)))))} :
                   uncertainty \in Round2(Times(Minus(Int2(1), verifiability_score),
                                                Int2(20)))}

app1_assess(table) ==
    LET metadata_flags == 1..Len(table)
    IN  UNION {{[report |-> rep, summary |-> s] : s \in app1_summary(table, rep)} :
                 rep \in assess_carbon_data_quality(table, metadata_flags)}

\* ------------------------------------------------------------------ inputs
\* the tables of n columns and the given number of rows
Tables(n, rows) == [1..n -> OrderedColumnsOfLen(rows)]

\* text columns of k distinct lower-case values of which j also occur in
\* upper case
WideColumn(k, j) ==
    [dtype |-> "obj",
     cells |-> [i \in 1..(k + j) |->
                   IF i <= k THEN StrCell(<<96 + i>>) ELSE StrCell(<<64 + (i - k)>>)]]

WideColumns ==
    UNION {{WideColumn(k, j) :
              j \in 0..(IF k < MaxDistinct - k THEN k ELSE MaxDistinct - k)} :
             k \in 1..MaxDistinct}

ScorerColumns == UNION {ColumnsOfLen(n) : n \in 0..MaxLen} \cup WideColumns

ScoreValues == {Num(0, 1), Num(1, 5), Num(2, 5), Num(1, 2), Num(3, 4), Num(1, 1), NA}

\* mappings from a non-empty subset of the weighted dimensions
Mappings == UNION {[D -> ScoreValues] : D \in (SUBSET Dims) \ {{}}}

\* scores from -0.1 to 1.1 in steps of 0.001
ScoreGrid == {Num(k, 1000) : k \in (0 - 100)..1100}

Scorers == {"starter.Completeness", "starter.Format Validity",
            "starter.Cross-System Consistency", "starter.Business Rule Compliance",
            "starter.Duplicates", "cdq.Completeness", "cdq.Accuracy",
            "cdq.Format Validity", "cdq.Timeliness", "cdq.Relevance",
            "cdq.Verifiability", "cdq.Comparability"}

score_all(column) ==
    [f \in Scorers |->
        CASE f = "starter.Completeness" -> starter_DQ_calculate_completeness(column)
          [] f = "starter.Format Validity" -> starter_DQ_calculate_format_validity(column)
          [] f = "starter.Cross-System Consistency" ->
                 calculate_cross_system_consistency(column)
          [] f = "starter.Business Rule Compliance" ->
                 calculate_business_rule_compliance(column, 0, 999999)
          [] f = "starter.Duplicates" -> detect_duplicates(column)
          [] f = "cdq.Completeness" -> cdq_calculate_completeness(column)
          [] f = "cdq.Accuracy" -> calculate_accuracy(column)
          [] f = "cdq.Format Validity" -> cdq_calculate_format_validity(column)
          [] f = "cdq.Timeliness" -> calculate_timeliness(column)
          [] f = "cdq.Relevance" -> calculate_relevance(column)
          [] f = "cdq.Verifiability" -> calculate_verifiability(column)
          [] f = "cdq.Comparability" -> calculate_comparability(column)]

classify_all(score) ==
    [starter_label |-> starter_DQ_get_quality_label(score),
     starter_action |-> starter_DQ_get_suggested_action(score),
     cdq_label |-> cdq_get_quality_label(score),
     cdq_action |-> cdq_get_suggested_action(score)]

\* ----------------------------------------------------------- state machine
\* pc: "idle" between calls, "done" when a call has produced its result.
\* op: the call made.  df, report, summary: the table uploaded and what the
\* handler built from it.  arg, ret: argument and result of a direct call of
\* a scoring function.
None == [status |-> "none"]

Init ==
    /\ pc = "idle"
    /\ op = "none"
    /\ df = <<>>
    /\ report = <<>>
    /\ summary = None
    /\ arg = None
    /\ ret = None

\* POST /assess of app.py
Assess ==
    /\ pc = "idle"
    /\ \E n \in 0..MaxCols, rows \in 0..MaxRows :
       \E table \in Tables(n, rows) : \E out \in app_assess(table) :
          /\ df' = table
          /\ report' = out.report
          /\ summary' = out.summary
    /\ pc' = "done"
    /\ op' = "app.assess"
    /\ UNCHANGED <<arg, ret>>

\* POST /assess of app1.py
AssessCarbon ==
    /\ pc = "idle"
    /\ \E n \in 0..MaxCols, rows \in 0..MaxRows :
       \E table \in Tables(n, rows) : \E out \in app1_assess(table) :
          /\ df' = table
          /\ report' = out.report
          /\ summary' = out.summary
    /\ pc' = "done"
    /\ op' = "app1.assess"
    /\ UNCHANGED <<arg, ret>>

\* every scorer of both modules applied to one column
ScoreColumn ==
    /\ pc = "idle"
    /\ \E column \in ScorerColumns :
          /\ arg' = column
          /\ ret' = score_all(column)
    /\ pc' = "done"
    /\ op' = "score"
    /\ UNCHANGED <<df, report, summary>>

\* starter_DQ.calculate_dqs on a mapping
Aggregate ==
    /\ pc = "idle"
    /\ \E scores \in Mappings : \E dqs \in starter_DQ_calculate_dqs(scores) :
          /\ arg' = scores
          /\ ret' = dqs
    /\ pc' = "done"
    /\ op' = "calculate_dqs"
    /\ UNCHANGED <<df, report, summary>>

\* get_quality_label and get_suggested_action of both modules on one score
Classify ==
    /\ pc = "idle"
    /\ \E score \in ScoreGrid :
          /\ arg' = score
          /\ ret' = classify_all(score)
    /\ pc' = "done"
    /\ op' = "classify"
    /\ UNCHANGED <<df, report, summary>>

\* the call returns; nothing persists
Return ==
    /\ pc = "done"
    /\ pc' = "idle"
    /\ op' = "none"
    /\ df' = <<>>
    /\ report' = <<>>
    /\ summary' = None
    /\ arg' = None
    /\ ret' = None

Next == Assess \/ AssessCarbon \/ ScoreColumn \/ Aggregate \/ Classify \/ Return

Spec == Init /\ [][Next]_vars

\* ------------------------------------------------------------ properties
Assessed == pc = "done" /\ op \in {"app.assess", "app1.assess"}
Scored == pc = "done" /\ op = "score"

InUnitOrNA(x) == x.tag = "N/A" \/ (IsNum(x) /\ 0 <= x.n /\ x.n <= x.d)

\* m is a number and o is a multiple of 0.01 at distance at most 0.005 from it
NearestHundredth(o, m) ==
    /\ IsNum(o) /\ IsNum(m)
    /\ (100 * o.n) % o.d = 0
    /\ 200 * Abs(o.n * m.d - m.n * o.d) <= o.d * m.d

\* the bucketed style of the specification
Bucketed(r) ==
    IF Gt(r, Num(95, 100)) THEN Num(1, 1)
    ELSE IF Gt(r, Num(85, 100)) THEN Num(75, 100)
    ELSE IF Gt(r, Num(75, 100)) THEN Num(5, 10)
    ELSE IF Gt(r, Num(5, 10)) THEN Num(4, 10)
    ELSE Num(2, 10)

\* the tier of a score k/1000, by the lower-inclusive boundaries
Tier(x) ==
    LET k == Floor(1000 * x.n, x.d)
    IN  IF k >= 800 THEN 1 ELSE IF k >= 600 THEN 2 ELSE IF k >= 400 THEN 3
        ELSE IF k >= 200 THEN 4 ELSE 5

StarterLabels == <<"High Quality", "Good Quality", "Acceptable", "Poor Quality",
                   "Very Poor">>
StarterActions == <<"Suitable for critical decision-making",
                    "Reliable for most business purposes",
                    "Usable with caution, consider improvements",
                    "Use only if necessary, prioritize improvement",
                    "Not recommended for use, requires remediation">>
CdqLabels == <<"High", "Good", "Acceptable", "Poor", "Very Poor">>
CdqActions == <<"Use confidently for decision-making.", "Use with minor caution.",
                "Review and improve where possible.", "Flag for remediation.",
                "Do not use.">>

\* C1: calculate_dqs of starter_DQ returns round(weighted_sum / total_weight, 2)
\* with both sums taken over the dimensions of the mapping whose score is not
\* "N/A", and "N/A" when every dimension of the mapping is "N/A".
C1_RenormalisedOverMapping ==
    (pc = "done" /\ op = "calculate_dqs") =>
        LET present == {dim \in DOMAIN arg : arg[dim].tag # "N/A"}
            weighted_sum == SumOver([dim \in present |-> Times(arg[dim], weights[dim])],
                                    present)
            total_weight == SumOver(weights, present)
        IN  IF present = {} THEN ret = NA
            ELSE ret \in Round2(PyDiv(weighted_sum, total_weight))

\* C2: every dimension score of every report row, and the row's DQS, is "N/A"
\* or a number in [0,1], in both variants.
C2_ScoresInUnitInterval ==
    Assessed =>
        \A i \in 1..Len(report) :
            /\ InUnitOrNA(report[i].DQS)
            /\ \A dim \in DOMAIN report[i].scores : InUnitOrNA(report[i].scores[dim])

\* a carbon report row with a score strictly between 0 and 1, and a generic
\* row with an "N/A" dimension
C2_Witness ==
    /\ Assessed
    /\ \E i \in 1..Len(report) :
          /\ IsNum(report[i].DQS)
          /\ \E dim \in DOMAIN report[i].scores :
                LET x == report[i].scores[dim]
                IN  IsNum(x) /\ 0 < x.n /\ x.n < x.d
    /\ op = "app1.assess"

\* C3: on a zero-length column every ratio-based scorer of both variants
\* returns a defined number (0, the bucketed floor 0.2, or its stated default
\* for an empty input) or "N/A"; none raises and none yields nan.
C3_ZeroLengthColumnNeverRaises ==
    (Scored /\ len(arg) = 0) =>
        \A f \in {"starter.Completeness", "starter.Format Validity",
                  "starter.Cross-System Consistency",
                  "starter.Business Rule Compliance", "starter.Duplicates",
                  "cdq.Completeness", "cdq.Accuracy", "cdq.Format Validity",
                  "cdq.Timeliness"} :
            ret[f] \in {Num(0, 1), Num(2, 10), Num(1, 1), NA}

\* C4: assessing the table without columns completes in both variants and
\* reports overall DQS, label and action as "N/A".
C4_EmptyTableIsNotApplicable ==
    (Assessed /\ Len(df) = 0) =>
        /\ summary.status = "ok"
        /\ summary.overall_dqs = NA
        /\ summary.overall_label = "N/A"
        /\ op = "app.assess" => summary.overall_action = "N/A"
        /\ op = "app1.assess" => summary.decision = "N/A"

\* C5: for a table with at least one column the overall DQS is the mean of
\* the per-column DQS values that are not "N/A", rounded to 2 decimals; when
\* every column's DQS is "N/A" the overall DQS, label and action are "N/A".
C5_OverallIsMeanOfValidColumns ==
    (Assessed /\ Len(df) >= 1) =>
        LET Valid(x) == x.tag # "N/A"
            valid == SelectSeq([i \in 1..Len(report) |-> report[i].DQS], Valid)
        IN  /\ summary.status = "ok"
            /\ Len(valid) > 0 =>
                  NearestHundredth(summary.overall_dqs,
                                   PyDiv(SumSeq(valid), Int2(Len(valid))))
            /\ Len(valid) = 0 =>
                  /\ summary.overall_dqs = NA
                  /\ summary.overall_label = "N/A"
                  /\ op = "app.assess" => summary.overall_action = "N/A"

\* two columns with different DQS values averaged into an overall DQS that is
\* neither of them
C5_Witness ==
    /\ Assessed
    /\ Len(report) = 2
    /\ report[1].DQS # report[2].DQS
    /\ summary.status = "ok"
    /\ summary.overall_dqs # report[1].DQS
    /\ summary.overall_dqs # report[2].DQS

\* C6: both classifier configurations map a numeric score to one of five
\* tiers with lower-inclusive boundaries 0.8, 0.6, 0.4, 0.2, and the label
\* and the action returned for a score belong to the same tier.
C6_TiersLowerInclusive ==
    (pc = "done" /\ op = "classify") =>
        /\ ret.starter_label = StarterLabels[Tier(arg)]
        /\ ret.starter_action = StarterActions[Tier(arg)]
        /\ ret.cdq_label = CdqLabels[Tier(arg)]
        /\ ret.cdq_action = CdqActions[Tier(arg)]

\* the boundary score 0.8 classified into the first tier
C6_Witness ==
    /\ pc = "done" /\ op = "classify"
    /\ arg = Num(8, 10)
    /\ ret.cdq_label = "High"
    /\ ret.starter_action = "Suitable for critical decision-making"

\* C7: Cross-System Consistency is the bucketed value (breakpoints 0.95,
\* 0.85, 0.75, 0.5) of the ratio of distinct lower-cased values to distinct
\* values, the ratio being 1.0 when there is no value.
C7_ConsistencyIsBucketed ==
    Scored =>
        ret["starter.Cross-System Consistency"] = Bucketed(consistency_ratio(arg))

\* C8: Business Rule Compliance is "N/A" for a non-numeric column and, for a
\* numeric column with a non-missing value, the bucketed fraction of the
\* non-missing values that lie in [0, 999999].
C8_ComplianceOverNonMissing ==
    Scored =>
        LET InRange(x) == 0 <= x.n /\ x.n <= 999999
            present == dropna(arg)
        IN  IF ~is_numeric_dtype(arg)
            THEN ret["starter.Business Rule Compliance"] = NA
            ELSE Len(present) > 0 =>
                    ret["starter.Business Rule Compliance"] =
                        Bucketed(PyDiv(Int2(Len(SelectSeq(present, InRange))),
                                       Int2(Len(present))))

\* C9: the overall label reported is the label the classifier gives to the
\* overall DQS reported with it, in both variants.
C9_LabelMatchesReportedScore ==
    (Assessed /\ summary.status = "ok" /\ IsNum(summary.overall_dqs)) =>
        /\ op = "app.assess" =>
              summary.overall_label = StarterLabels[Tier(summary.overall_dqs)]
        /\ op = "app1.assess" =>
              summary.overall_label = CdqLabels[Tier(summary.overall_dqs)]

\* C10: in the carbon summary of a table with a numeric column that holds a
\* value, lower bound <= estimate <= upper bound.
C10_RangeIsOrdered ==
    (pc = "done" /\ op = "app1.assess" /\ summary.status = "ok"
        /\ IsNum(summary.estimate)) =>
        /\ Le(summary.lower_bound, summary.estimate)
        /\ Le(summary.estimate, summary.upper_bound)

====
